---- MODULE Spec2Model ----
(***************************************************************************)
(* Model of examples/QuickStart_Chatbot/chatbot.py: one run of main(),     *)
(* with get_chat_response (Sarvam REST endpoint through requests) and      *)
(* get_chat_response_azure (Azure OpenAI through the openai SDK).          *)
(*                                                                         *)
(* The boundary of the model is the library API the program calls:         *)
(* requests.post, Response.raise_for_status, Response.json, os.environ,    *)
(* AzureOpenAI(...), client.chat.completions.create, argparse, input and   *)
(* print.  A library call is modelled by what the program can observe of   *)
(* it (value returned or exception raised); what a library does on the     *)
(* wire inside one call (redirects, SDK-internal retries) is not modelled. *)
(* requests is modelled as its releases since 2.28 behave: Response.json   *)
(* raises requests.exceptions.JSONDecodeError, and InvalidHeader's text    *)
(* quotes the offending header value.                                      *)
(* `calls` therefore records the program's calls of requests.post and      *)
(* client.chat.completions.create.                                         *)
(*                                                                         *)
(* Text is a sequence of tokens (TLA+ strings); a token is one character   *)
(* where characters matter (user input, keys) and a fragment elsewhere.    *)
(***************************************************************************)
EXTENDS Integers, Sequences, FiniteSets, TLC

VARIABLES
    pc,              \* position in main / the two helper functions
    args,            \* argparse namespace: api_key (optional text), use_azure
    env,             \* os.environ restricted to the four AZURE_OPENAI_* names
    openaiInstalled, \* whether `from openai import AzureOpenAI` succeeds
    line,            \* what input() returned (None before it returns)
    user_input,      \* main's local after input().strip()
    client,          \* get_chat_response_azure's local AzureOpenAI client
    deployment,      \* get_chat_response_azure's local
    response,        \* the response object held by either helper
    bot_response,    \* main's local
    exc,             \* exception propagating (NoExc when none)
    calls,           \* calls of requests.post / chat.completions.create so far
    stdout,          \* lines written by print / input's prompt
    stderr,          \* what argparse and the interpreter write to stderr
    exitStatus       \* "running", or the process exit status "0" / "1" / "2"

vars == <<pc, args, env, openaiInstalled, line, user_input, client,
          deployment, response, bot_response, exc, calls, stdout, stderr, exitStatus>>

(***************************************************************************)
(* Bounds of the model.                                                    *)
(***************************************************************************)
MaxLineLen == 2

(***************************************************************************)
(* Python values.                                                          *)
(***************************************************************************)
\* Optional text: Python None or a str.
None == [some |-> FALSE, s |-> <<>>]
Some(s) == [some |-> TRUE, s |-> s]
\* Python truthiness of an optional str: None and "" are falsy.
Truthy(o) == o.some /\ o.s # <<>>

\* str(x) as the f-strings of main apply it to an optional str.
PyStr(o) == IF o.some THEN o.s ELSE <<"None">>

\* JSON / Python values, tagged: obj (dict), arr (list), str, null.
JNull == [t |-> "null", v |-> <<>>]
JStr(s) == [t |-> "str", v |-> s]
JArr(a) == [t |-> "arr", v |-> a]
JObj(o) == [t |-> "obj", v |-> o]

\* Result of evaluating an expression: a value or a raised exception type.
Ok(x) == [ok |-> TRUE, val |-> x, err |-> ""]
Raise(e) == [ok |-> FALSE, val |-> JNull, err |-> e]

\* x[key] for a str key, as Python evaluates it.
GetKey(x, key) ==
    CASE x.t = "obj" -> IF key \in DOMAIN x.v THEN Ok(x.v[key]) ELSE Raise("KeyError")
      [] OTHER -> Raise("TypeError")

\* Variant of GetFirst: takes the last element of a list instead of the first.
GetFirst_Last(x) ==
    CASE x.t = "arr" -> IF Len(x.v) >= 1 THEN Ok(x.v[Len(x.v)]) ELSE Raise("IndexError")
      [] x.t = "str" -> IF Len(x.v) >= 1 THEN Ok(JStr(<<x.v[Len(x.v)]>>)) ELSE Raise("IndexError")
      [] x.t = "obj" -> Raise("KeyError")
      [] OTHER -> Raise("TypeError")

\* x[0], as Python evaluates it.
GetFirst(x) ==
    CASE x.t = "arr" -> IF Len(x.v) >= 1 THEN Ok(x.v[1]) ELSE Raise("IndexError")
      [] x.t = "str" -> IF Len(x.v) >= 1 THEN Ok(JStr(<<x.v[1]>>)) ELSE Raise("IndexError")
      [] x.t = "obj" -> Raise("KeyError")
      [] OTHER -> Raise("TypeError")

\* r[key] where r is the result of the expression to the left.
ThenKey(r, key) == IF r.ok THEN GetKey(r.val, key) ELSE r
ThenFirst(r) == IF r.ok THEN GetFirst(r.val) ELSE r

\* Variant of ExtractContent: a missing field yields None instead of raising
\* (as a chain of dict.get calls would).
ExtractContent_Lenient(body) ==
    LET r == ThenKey(ThenKey(ThenFirst(GetKey(body, "choices")), "message"), "content")
    IN IF r.ok THEN r ELSE Ok(JNull)

\* response.json()["choices"][0]["message"]["content"] on a parsed body.
ExtractContent(body) ==
    ThenKey(ThenKey(ThenFirst(GetKey(body, "choices")), "message"), "content")

\* The Python value of a JSON str or null as main's bot_response (the content
\* values of JsonBodies are strings or null).
AsOptStr(j) == IF j.t = "str" THEN Some(j.v) ELSE None

(***************************************************************************)
(* str.strip()                                                             *)
(***************************************************************************)
\* The ASCII characters str.strip() removes.
Whitespace == {" ", "\t", "\n", "\r", "\f"}

RECURSIVE LStrip(_)
LStrip(s) == IF s # <<>> /\ Head(s) \in Whitespace THEN LStrip(Tail(s)) ELSE s

RECURSIVE RStrip(_)
RStrip(s) ==
    IF s # <<>> /\ s[Len(s)] \in Whitespace THEN RStrip(SubSeq(s, 1, Len(s) - 1)) ELSE s

\* Variant of Strip: the line is used as typed.
Strip_None(s) == s

Strip(s) == RStrip(LStrip(s))

(***************************************************************************)
(* Inputs of a run: command line, environment, installed packages.         *)
(***************************************************************************)
\* Values of --api-key: absent, empty, well-formed, and one holding a line break.
ApiKeys == {None, Some(<<>>), Some(<<"k">>), Some(<<"k", "\n", "x">>)}

EnvNames == {"AZURE_OPENAI_API_KEY", "AZURE_OPENAI_ENDPOINT",
             "AZURE_OPENAI_DEPLOYMENT", "AZURE_OPENAI_API_VERSION"}

\* The value a set variable has in the model's environments.
EnvValue(name) ==
    CASE name = "AZURE_OPENAI_API_KEY" -> <<"z">>
      [] name = "AZURE_OPENAI_ENDPOINT" -> <<"https://res.openai.azure.com">>
      [] name = "AZURE_OPENAI_DEPLOYMENT" -> <<"dep">>
      [] name = "AZURE_OPENAI_API_VERSION" -> <<"2025-01-01">>

\* Every environment: each name unset or set.
Environments ==
    {[n \in EnvNames |-> IF n \in S THEN Some(EnvValue(n)) ELSE None] : S \in SUBSET EnvNames}

Chars == {" ", "a"}

RECURSIVE LinesOfLen(_)
LinesOfLen(n) ==
    IF n = 0 THEN {<<>>} ELSE {<<c>> \o l : c \in Chars, l \in LinesOfLen(n - 1)}

\* The lines the user can type at the prompt.
Lines == UNION {LinesOfLen(n) : n \in 0..MaxLineLen}

(***************************************************************************)
(* Exceptions.                                                             *)
(***************************************************************************)
NoExc == [type |-> "", msg |-> <<>>, at |-> ""]
Exc(type, msg, at) == [type |-> type, msg |-> msg, at |-> at]

\* The classes of requests.exceptions the model raises; all derive from
\* requests.exceptions.RequestException, which main's except clause names.
RequestExceptionTypes == {"ConnectionError", "HTTPError", "JSONDecodeError", "InvalidHeader"}

IsRequestException(e) == e.type \in RequestExceptionTypes

\* repr() of a str, as far as the model's characters need escaping.
Escape(s) ==
    [i \in DOMAIN s |-> CASE s[i] = "\n" -> "\\n" [] s[i] = "\r" -> "\\r" [] OTHER -> s[i]]

Repr(s) == <<"'">> \o Escape(s) \o <<"'">>

(***************************************************************************)
(* get_chat_response: the request it builds.                               *)
(***************************************************************************)
SarvamUrl == <<"https://api.sarvam.ai/v1/chat/completions">>
SystemPrompt == <<"You are a helpful assistant.">>
\* The float 0.7, as numerator and denominator.
Temperature == <<7, 10>>

Message(role, content) == [role |-> role, content |-> content]

DirectHeaders(api_key) ==
    [Authorization |-> <<"Bearer ">> \o api_key, ContentType |-> <<"application/json">>]

\* Variant of DirectData: the user message is put before the system message.
DirectData_Swapped(text) ==
    [model |-> <<"sarvam-m">>,
     messages |-> <<Message("user", text), Message("system", SystemPrompt)>>,
     temperature |-> Temperature]

DirectData(text) ==
    [model |-> <<"sarvam-m">>,
     messages |-> <<Message("system", SystemPrompt), Message("user", text)>>,
     temperature |-> Temperature]

AzureCreateArgs(dep, text) ==
    [model |-> dep,
     messages |-> <<Message("system", SystemPrompt), Message("user", text)>>,
     temperature |-> Temperature]

(***************************************************************************)
(* requests.post as the program observes it.                               *)
(***************************************************************************)
\* requests validates a str header value against ^\S[^\r\n]*$|^$ while it
\* prepares the request, before anything is sent.
HeaderValueValid(v) ==
    \/ v = <<>>
    \/ /\ v[1] \notin Whitespace
       /\ \A i \in 2..Len(v) : v[i] \in {"\n", "\r"} => (i = Len(v) /\ v[i] = "\n")

\* The text of the InvalidHeader raised for a value that fails the check: it
\* ends with the repr of the value.
InvalidHeaderMsg(v) ==
    <<"Invalid leading whitespace, reserved character(s), or return character(s) in header value: ">>
    \o Repr(v)

NoResponse == [kind |-> "none", status |-> 0, isJson |-> FALSE, json |-> JNull, choices |-> <<>>]
HttpResponse(status, isJson, json) ==
    [kind |-> "http", status |-> status, isJson |-> isJson, json |-> json, choices |-> <<>>]
SdkResponse(choices) ==
    [kind |-> "sdk", status |-> 0, isJson |-> FALSE, json |-> JNull, choices |-> choices]

Choice(content) == JObj([message |-> JObj([content |-> content])])

\* Parsed bodies the endpoint can answer with.
JsonBodies ==
    { JObj([choices |-> JArr(<<Choice(JStr(<<"h", "i">>))>>)]),
      JObj([id |-> JStr(<<"7">>),
            choices |-> JArr(<<JObj([index |-> JStr(<<"0">>),
                                     message |-> JObj([role |-> JStr(<<"assistant">>),
                                                       content |-> JStr(<<"h", "i">>)])]),
                               Choice(JStr(<<"y", "o">>))>>)]),
      JObj([choices |-> JArr(<<Choice(JStr(<<>>))>>)]),
      JObj([choices |-> JArr(<<Choice(JNull)>>)]),
      JObj([choices |-> JArr(<<>>)]),
      JObj([error |-> JStr(<<"boom">>)]),
      JObj(<<>>),
      JObj([choices |-> JArr(<<JObj(<<>>)>>)]),
      JObj([choices |-> JArr(<<JObj([message |-> JObj(<<>>)])>>)]),
      JObj([choices |-> JArr(<<JObj([message |-> JNull])>>)]),
      JObj([choices |-> JStr(<<"a", "b">>)]),
      JObj([choices |-> JNull]),
      JArr(<<>>),
      JNull }

HttpStatuses == {200, 204, 304, 404, 500}

\* Responses requests.post can return.
HttpResponses ==
    {HttpResponse(st, TRUE, b) : st \in HttpStatuses, b \in JsonBodies}
    \cup {HttpResponse(st, FALSE, JNull) : st \in HttpStatuses}

\* Variant of StatusRaises: only server errors raise.
StatusRaises_ServerOnly(status) == 500 <= status /\ status < 600

\* Response.raise_for_status(): raises HTTPError for 4xx and 5xx only.
StatusRaises(status) == (400 <= status /\ status < 500) \/ (500 <= status /\ status < 600)

HttpErrorMsg(status) ==
    <<ToString(status), IF status < 500 THEN " Client Error" ELSE " Server Error", " for url: ">>
    \o SarvamUrl

\* What client.chat.completions.create can return: choices with optional content.
SdkChoiceLists ==
    {<<>>, <<Some(<<"h", "i">>)>>, <<Some(<<"h", "i">>), Some(<<"y", "o">>)>>, <<None>>, <<Some(<<>>)>>}

NoClient == [made |-> FALSE, api_key |-> <<>>, azure_endpoint |-> <<>>, api_version |-> <<>>]
DefaultApiVersion == <<"2024-12-01-preview">>

\* os.environ.get(name, default)
EnvGet(e, name, default) == IF e[name].some THEN e[name].s ELSE default

KeyErrorMsg(name) == <<"'", name, "'">>

(***************************************************************************)
(* State after the interpreter has started, before main() runs.            *)
(***************************************************************************)
Init ==
    /\ pc = "main"
    /\ args \in [api_key : ApiKeys, use_azure : BOOLEAN]
    /\ env \in Environments
    /\ openaiInstalled \in BOOLEAN
    /\ line = None
    /\ user_input = <<>>
    /\ client = NoClient
    /\ deployment = <<>>
    /\ response = NoResponse
    /\ bot_response = None
    /\ exc = NoExc
    /\ calls = <<>>
    /\ stdout = <<>>
    /\ stderr = <<>>
    /\ exitStatus = "running"

inputs == <<args, env, openaiInstalled>>

Banner == <<"Chatbot initialized. Enter your question.">>
PromptText == <<"You: ">>

\* main, lines 78-82: parse_args, print the banner, input("You: ").strip().
\* input() raises EOFError when stdin is at end of file; that is outside the try.
Prompt ==
    /\ pc = "main"
    /\ stdout' = stdout \o <<Banner, PromptText>>
    /\ \/ \E typed \in Lines :
            /\ line' = Some(typed)
            /\ user_input' = Strip(typed)
            /\ pc' = "if_input"
            /\ exc' = exc
       \/ /\ exc' = Exc("EOFError", <<"EOF when reading a line">>, "input")
          /\ pc' = "toplevel"
          /\ UNCHANGED <<line, user_input>>
    /\ UNCHANGED <<inputs, client, deployment, response, bot_response, calls, stderr, exitStatus>>

\* main, line 84 false: nothing to send, main returns.
SkipEmptyInput ==
    /\ pc = "if_input"
    /\ user_input = <<>>
    /\ pc' = "done"
    /\ exitStatus' = "0"
    /\ UNCHANGED <<inputs, line, user_input, client, deployment, response, bot_response, exc,
                   calls, stdout, stderr>>

UsageError == <<"usage: chatbot.py [-h] [--api-key API_KEY] [--use-azure]",
                "chatbot.py: error: --api-key is required when not using --use-azure">>

\* main, lines 89-91: parser.error prints usage to stderr and exits with status 2
\* (SystemExit is not a RequestException, so the except clause lets it pass).
ParserError ==
    /\ pc = "if_input"
    /\ user_input # <<>>
    /\ ~args.use_azure
    /\ ~Truthy(args.api_key)
    /\ stderr' = stderr \o <<UsageError>>
    /\ pc' = "done"
    /\ exitStatus' = "2"
    /\ UNCHANGED <<inputs, line, user_input, client, deployment, response, bot_response, exc,
                   calls, stdout>>

\* get_chat_response, lines 12-28, entered from main line 93: build headers and
\* data, call requests.post once.  The call raises InvalidHeader while preparing
\* the request, raises ConnectionError, or returns a response.
DirectPost ==
    /\ pc = "if_input"
    /\ user_input # <<>>
    /\ ~args.use_azure
    /\ Truthy(args.api_key)
    /\ LET headers == DirectHeaders(args.api_key.s)
           data == DirectData(user_input)
       IN /\ calls' = Append(calls, [fn |-> "requests.post", url |-> SarvamUrl,
                                     headers |-> headers, json |-> data])
          /\ IF ~HeaderValueValid(headers.Authorization)
             THEN /\ exc' = Exc("InvalidHeader",
                                InvalidHeaderMsg(headers.Authorization),
                                "requests.post")
                  /\ pc' = "except"
                  /\ response' = response
             ELSE \/ /\ exc' = Exc("ConnectionError",
                                   <<"HTTPSConnectionPool(host='api.sarvam.ai', port=443): Max retries exceeded">>,
                                   "requests.post")
                     /\ pc' = "except"
                     /\ response' = response
                  \/ \E r \in HttpResponses :
                        /\ response' = r
                        /\ pc' = "raise_for_status"
                        /\ exc' = exc
    /\ UNCHANGED <<inputs, line, user_input, client, deployment, bot_response, stdout, stderr,
                   exitStatus>>

\* get_chat_response, line 29.
RaiseForStatus ==
    /\ pc = "raise_for_status"
    /\ IF StatusRaises(response.status)
       THEN /\ exc' = Exc("HTTPError", HttpErrorMsg(response.status), "raise_for_status")
            /\ pc' = "except"
       ELSE /\ pc' = "extract"
            /\ exc' = exc
    /\ UNCHANGED <<inputs, line, user_input, client, deployment, response, bot_response, calls,
                   stdout, stderr, exitStatus>>

\* get_chat_response, line 31, and the assignment of main line 93.
\* response.json() raises requests.exceptions.JSONDecodeError on a body that is
\* not JSON; each subscript raises KeyError, IndexError or TypeError.
DirectExtract ==
    /\ pc = "extract"
    /\ IF ~response.isJson
       THEN /\ exc' = Exc("JSONDecodeError", <<"Expecting value: line 1 column 1 (char 0)">>,
                          "response.json")
            /\ pc' = "except"
            /\ bot_response' = bot_response
       ELSE LET r == ExtractContent(response.json)
            IN IF r.ok
               THEN /\ bot_response' = AsOptStr(r.val)
                    /\ pc' = "print_bot"
                    /\ exc' = exc
               ELSE /\ exc' = Exc(r.err, <<"choices/0/message/content">>, "response")
                    /\ pc' = "except"
                    /\ bot_response' = bot_response
    /\ UNCHANGED <<inputs, line, user_input, client, deployment, response, calls, stdout, stderr,
                   exitStatus>>

\* get_chat_response_azure, lines 41-44, entered from main line 88.
AzureImport ==
    /\ pc = "if_input"
    /\ user_input # <<>>
    /\ args.use_azure
    /\ IF openaiInstalled
       THEN /\ pc' = "azure_client"
            /\ exc' = exc
       ELSE /\ exc' = Exc("ImportError", <<"Install the openai package: pip install openai">>,
                          "import")
            /\ pc' = "except"
    /\ UNCHANGED <<inputs, line, user_input, client, deployment, response, bot_response, calls,
                   stdout, stderr, exitStatus>>

\* get_chat_response_azure, lines 46-50: the keyword arguments are evaluated in
\* order, os.environ[name] raising KeyError(name) for an unset name; the
\* constructor itself sends nothing.
AzureClient ==
    /\ pc = "azure_client"
    /\ IF ~env["AZURE_OPENAI_API_KEY"].some
       THEN /\ exc' = Exc("KeyError", KeyErrorMsg("AZURE_OPENAI_API_KEY"), "os.environ")
            /\ pc' = "except"
            /\ client' = client
       ELSE IF ~env["AZURE_OPENAI_ENDPOINT"].some
       THEN /\ exc' = Exc("KeyError", KeyErrorMsg("AZURE_OPENAI_ENDPOINT"), "os.environ")
            /\ pc' = "except"
            /\ client' = client
       ELSE /\ client' = [made |-> TRUE,
                          api_key |-> env["AZURE_OPENAI_API_KEY"].s,
                          azure_endpoint |-> env["AZURE_OPENAI_ENDPOINT"].s,
                          api_version |-> EnvGet(env, "AZURE_OPENAI_API_VERSION",
                                                 DefaultApiVersion)]
            /\ pc' = "azure_deployment"
            /\ exc' = exc
    /\ UNCHANGED <<inputs, line, user_input, deployment, response, bot_response, calls, stdout,
                   stderr, exitStatus>>

\* Variant of AzureDeployment: os.environ.get with a default instead of
\* os.environ[...], so an unset name does not raise.
AzureDeployment_NoCheck ==
    /\ pc = "azure_deployment"
    /\ deployment' = EnvGet(env, "AZURE_OPENAI_DEPLOYMENT", <<>>)
    /\ pc' = "azure_create"
    /\ UNCHANGED <<inputs, line, user_input, client, response, bot_response, exc, calls,
                   stdout, stderr, exitStatus>>

\* get_chat_response_azure, line 51.
AzureDeployment ==
    /\ pc = "azure_deployment"
    /\ IF env["AZURE_OPENAI_DEPLOYMENT"].some
       THEN /\ deployment' = env["AZURE_OPENAI_DEPLOYMENT"].s
            /\ pc' = "azure_create"
            /\ exc' = exc
       ELSE /\ exc' = Exc("KeyError", KeyErrorMsg("AZURE_OPENAI_DEPLOYMENT"), "os.environ")
            /\ pc' = "except"
            /\ deployment' = deployment
    /\ UNCHANGED <<inputs, line, user_input, client, response, bot_response, calls, stdout, stderr,
                   exitStatus>>

\* get_chat_response_azure, lines 53-60: one call of client.chat.completions.create,
\* which returns a completion or raises one of the SDK's openai.APIError classes.
AzureCreate ==
    /\ pc = "azure_create"
    /\ calls' = Append(calls, [fn |-> "client.chat.completions.create", client |-> client,
                               kwargs |-> AzureCreateArgs(deployment, user_input)])
    /\ \/ /\ exc' = Exc("openai.APIError", <<"Connection error.">>, "create")
          /\ pc' = "except"
          /\ response' = response
       \/ \E ch \in SdkChoiceLists :
             /\ response' = SdkResponse(ch)
             /\ pc' = "azure_extract"
             /\ exc' = exc
    /\ UNCHANGED <<inputs, line, user_input, client, deployment, bot_response, stdout, stderr,
                   exitStatus>>

\* get_chat_response_azure, line 61, and the assignment of main line 88.
AzureExtract ==
    /\ pc = "azure_extract"
    /\ IF Len(response.choices) >= 1
       THEN /\ bot_response' = response.choices[1]
            /\ pc' = "print_bot"
            /\ exc' = exc
       ELSE /\ exc' = Exc("IndexError", <<"list index out of range">>, "response")
            /\ pc' = "except"
            /\ bot_response' = bot_response
    /\ UNCHANGED <<inputs, line, user_input, client, deployment, response, calls, stdout, stderr,
                   exitStatus>>

BotLine(reply) == <<"Bot: ">> \o PyStr(reply)
ErrorLine(e) == <<"An error occurred: ">> \o e.msg

\* main, line 95; main then returns.
PrintBot ==
    /\ pc = "print_bot"
    /\ stdout' = Append(stdout, BotLine(bot_response))
    /\ pc' = "done"
    /\ exitStatus' = "0"
    /\ UNCHANGED <<inputs, line, user_input, client, deployment, response, bot_response, exc,
                   calls, stderr>>

\* Variant of HandleRequestException: after printing the error the call is
\* tried again.
HandleRequestException_Retry ==
    /\ pc = "except"
    /\ IsRequestException(exc)
    /\ stdout' = Append(stdout, ErrorLine(exc))
    /\ pc' = "if_input"
    /\ UNCHANGED <<inputs, line, user_input, client, deployment, response, bot_response, exc,
                   calls, stderr, exitStatus>>

\* main, lines 96-97: the only except clause; main then returns.
HandleRequestException ==
    /\ pc = "except"
    /\ IsRequestException(exc)
    /\ stdout' = Append(stdout, ErrorLine(exc))
    /\ pc' = "done"
    /\ exitStatus' = "0"
    /\ UNCHANGED <<inputs, line, user_input, client, deployment, response, bot_response, exc,
                   calls, stderr>>

Traceback(e) == <<"Traceback (most recent call last):", e.type, ": ">> \o e.msg

\* An exception the except clause does not name (or raised outside the try)
\* leaves main at line 101: the interpreter writes the traceback to stderr and
\* exits with status 1.
Uncaught ==
    /\ \/ pc = "except" /\ ~IsRequestException(exc)
       \/ pc = "toplevel"
    /\ stderr' = stderr \o <<Traceback(exc)>>
    /\ pc' = "done"
    /\ exitStatus' = "1"
    /\ UNCHANGED <<inputs, line, user_input, client, deployment, response, bot_response, exc,
                   calls, stdout>>

Next ==
    \/ Prompt
    \/ SkipEmptyInput
    \/ ParserError
    \/ DirectPost
    \/ RaiseForStatus
    \/ DirectExtract
    \/ AzureImport
    \/ AzureClient
    \/ AzureDeployment
    \/ AzureCreate
    \/ AzureExtract
    \/ PrintBot
    \/ HandleRequestException
    \/ Uncaught

Spec == Init /\ [][Next]_vars

(***************************************************************************)
(* Vocabulary of the properties.                                           *)
(***************************************************************************)
HasLine(tag) == \E i \in DOMAIN stdout : stdout[i][1] = tag
BotPrinted == HasLine("Bot: ")
ErrorPrinted == HasLine("An error occurred: ")
LastLine == stdout[Len(stdout)]

\* A chat call was entered and has ended (returned or raised).
CallEnded ==
    /\ line.some /\ user_input # <<>>
    /\ args.use_azure \/ Truthy(args.api_key)
    /\ pc \in {"print_bot", "except", "done"}

RequiredAzureNames == {"AZURE_OPENAI_API_KEY", "AZURE_OPENAI_ENDPOINT", "AZURE_OPENAI_DEPLOYMENT"}
MissingAzureCredential == \E n \in RequiredAzureNames : ~env[n].some

\* The spec's three error kinds, read on the exceptions of the code.
IsConfigurationError(e) == e.type = "KeyError" /\ e.at = "os.environ"
IsProviderRequestError(e) ==
    /\ e.type \in {"ConnectionError", "HTTPError", "JSONDecodeError", "InvalidHeader"}
    /\ e.at \in {"requests.post", "raise_for_status", "response.json"}
IsProviderResponseError(e) ==
    e.type \in {"KeyError", "IndexError", "TypeError"} /\ e.at = "response"

ErrorStatus(st) == st \in 400..599

\* body has the shape {"choices": [{"message": {"content": ...}}, ...], ...}
WellShaped(b) ==
    /\ b.t = "obj" /\ "choices" \in DOMAIN b.v
    /\ b.v["choices"].t = "arr" /\ Len(b.v["choices"].v) >= 1
    /\ b.v["choices"].v[1].t = "obj" /\ "message" \in DOMAIN b.v["choices"].v[1].v
    /\ b.v["choices"].v[1].v["message"].t = "obj"
    /\ "content" \in DOMAIN b.v["choices"].v[1].v["message"].v
FirstContent(b) == b.v["choices"].v[1].v["message"].v["content"]

\* text holds sub as a run of consecutive tokens.
Occurs(sub, text) ==
    \E off \in 0..(Len(text) - Len(sub)) : \A j \in 1..Len(sub) : text[off + j] = sub[j]
Shows(text, secret) == secret # <<>> /\ (Occurs(secret, text) \/ Occurs(Escape(secret), text))

(***************************************************************************)
(* C1.  Azure path, a required credential unset.                           *)
(***************************************************************************)
\* C1 as claimed: whenever AZURE_OPENAI_API_KEY, AZURE_OPENAI_ENDPOINT or
\* AZURE_OPENAI_DEPLOYMENT is unset, the Azure call fails with a configuration
\* error and no request call has been made.
C1_Claimed ==
    (CallEnded /\ args.use_azure /\ MissingAzureCredential)
        => (IsConfigurationError(exc) /\ calls = <<>>)

\* C1 amended: whenever a required Azure credential is unset, the Azure call
\* fails before any request call and returns no reply: with the KeyError of the
\* first unset name (lines 47, 48, 51) when the openai package imports, with
\* the ImportError of line 44 when it does not.
C1_AzureMissingCredentialFailsBeforeRequest ==
    (CallEnded /\ args.use_azure /\ MissingAzureCredential)
        => /\ calls = <<>>
           /\ bot_response = None /\ ~BotPrinted
           /\ pc # "print_bot"
           /\ IF openaiInstalled
              THEN /\ IsConfigurationError(exc)
                   /\ \E n \in RequiredAzureNames : ~env[n].some /\ exc.msg = <<"'", n, "'">>
              ELSE exc.type = "ImportError"

C1_Witness ==
    /\ pc = "done" /\ args.use_azure /\ openaiInstalled
    /\ env["AZURE_OPENAI_API_KEY"].some /\ env["AZURE_OPENAI_ENDPOINT"].some
    /\ ~env["AZURE_OPENAI_DEPLOYMENT"].some
    /\ exc.type = "KeyError" /\ client.made /\ calls = <<>>

(***************************************************************************)
(* C2.  Every error of a chat call is handled by main.                     *)
(***************************************************************************)
\* C2 as claimed: when a chat call has raised and the run is over, main has
\* printed one "An error occurred:" line for it and returned normally: no
\* traceback, exit status 0, and no further request call.
C2_Claimed ==
    (/\ pc = "done"
     /\ \/ IsConfigurationError(exc)
        \/ IsProviderRequestError(exc)
        \/ IsProviderResponseError(exc)
        \/ exc.type = "openai.APIError")
        => /\ ErrorPrinted
           /\ stderr = <<>>
           /\ exitStatus = "0"
           /\ Len(calls) <= 1

(***************************************************************************)
(* C3.  Direct path, JSON without the expected fields.                     *)
(***************************************************************************)
\* C3: on the Direct path, when the response passed the status check and its
\* body is JSON that lacks choices[0].message.content, the call raises
\* KeyError, IndexError or TypeError from the subscripts of line 31 (the
\* response-shape error kind), which is not a transport/HTTP error, and no
\* reply is returned or printed.
C3_MissingFieldsRaiseResponseError ==
    (/\ CallEnded /\ ~args.use_azure
     /\ response.kind = "http" /\ ~ErrorStatus(response.status)
     /\ response.isJson /\ ~WellShaped(response.json))
        => /\ IsProviderResponseError(exc)
           /\ ~IsProviderRequestError(exc)
           /\ pc # "print_bot"
           /\ bot_response = None
           /\ ~BotPrinted

C3_Witness ==
    /\ pc = "done" /\ ~args.use_azure
    /\ response.kind = "http" /\ response.status = 200 /\ response.isJson
    /\ response.json = JObj([choices |-> JArr(<<>>)])
    /\ exc.type = "IndexError"

(***************************************************************************)
(* C4.  Direct path, transport and HTTP failures.                          *)
(***************************************************************************)
\* C4 as claimed: on the Direct path the reply text is never extracted from a
\* response whose status is not 2xx, and no "Bot:" line is printed for it.
C4_Claimed ==
    (~args.use_azure /\ response.kind = "http" /\ response.status \notin 200..299)
        => (pc # "print_bot" /\ bot_response = None /\ ~BotPrinted)

\* C4 amended: on the Direct path, when requests.post raises, or the status is
\* 4xx or 5xx, or the status is below 400 and the body is not JSON, the call
\* raises a requests exception whose text carries the cause (for an HTTP error
\* the status), no reply is extracted, and main prints `An error occurred:
\* <text>` and no `Bot:` line.
C4_RequestFailureIsReported ==
    (/\ CallEnded /\ ~args.use_azure
     /\ \/ response.kind = "none"
        \/ response.kind = "http" /\ ErrorStatus(response.status)
        \/ response.kind = "http" /\ ~response.isJson)
        => /\ IsProviderRequestError(exc)
           /\ exc.msg # <<>>
           /\ (response.kind = "http" /\ ErrorStatus(response.status))
                 => (exc.type = "HTTPError" /\ exc.msg[1] = ToString(response.status))
           /\ pc # "print_bot"
           /\ bot_response = None
           /\ ~BotPrinted
           /\ pc = "done"
                 => /\ LastLine = <<"An error occurred: ">> \o exc.msg
                    /\ stderr = <<>>

C4_Witness ==
    /\ pc = "done" /\ ~args.use_azure
    /\ response.kind = "http" /\ response.status = 500 /\ response.isJson
    /\ WellShaped(response.json)
    /\ ErrorPrinted

(***************************************************************************)
(* C5.  No --api-key and no --use-azure.                                   *)
(***************************************************************************)
\* C5 as claimed: in every run without --api-key and without --use-azure,
\* whatever line the user types, the run ends through parser.error with exit
\* status 2 and without a request call.
C5_Claimed ==
    (pc = "done" /\ ~args.use_azure /\ ~args.api_key.some /\ line.some)
        => (exitStatus = "2" /\ stderr # <<>> /\ calls = <<>>)

(***************************************************************************)
(* C6.  At most one request call per run.                                  *)
(***************************************************************************)
CredentialsPresent ==
    IF args.use_azure THEN ~MissingAzureCredential ELSE Truthy(args.api_key)

AllWhitespace(s) == \A i \in DOMAIN s : s[i] \in Whitespace

\* C7: when the line read at the prompt is empty after removing surrounding
\* whitespace, neither helper is entered, no request call is made and neither a
\* reply nor an error line is printed; and the user message of every request
\* call is non-empty.
C7_EmptyMessageNeverSent ==
    /\ (line.some /\ AllWhitespace(line.s))
          => /\ pc \in {"if_input", "done"}
             /\ calls = <<>>
             /\ exc = NoExc
             /\ ~BotPrinted /\ ~ErrorPrinted
             /\ stderr = <<>>
    /\ \A i \in DOMAIN calls :
          LET body == IF calls[i].fn = "requests.post" THEN calls[i].json ELSE calls[i].kwargs
          IN body.messages[Len(body.messages)].content # <<>>
             /\ ~AllWhitespace(body.messages[Len(body.messages)].content)

C7_Witness ==
    /\ pc = "done" /\ line = Some(<<" ", " ">>) /\ Truthy(args.api_key) /\ exitStatus = "0"

(***************************************************************************)
(* C8.  The request that is built.                                         *)
(***************************************************************************)
\* C8: every request call carries exactly two messages, the system message
\* "You are a helpful assistant." and then the user message with the stripped
\* input as content, temperature 0.7, and as model "sarvam-m" (Direct) or the
\* value of AZURE_OPENAI_DEPLOYMENT (Azure); nothing else enters the body.
C8_RequestBody ==
    \A i \in DOMAIN calls :
        LET body == IF calls[i].fn = "requests.post" THEN calls[i].json ELSE calls[i].kwargs
        IN /\ user_input # <<>>
           /\ DOMAIN body = {"model", "messages", "temperature"}
           /\ Len(body.messages) = 2
           /\ body.messages[1] = [role |-> "system", content |-> <<"You are a helpful assistant.">>]
           /\ body.messages[2] = [role |-> "user", content |-> user_input]
           /\ body.temperature = <<7, 10>>
           /\ body.model = IF calls[i].fn = "requests.post"
                           THEN <<"sarvam-m">>
                           ELSE env["AZURE_OPENAI_DEPLOYMENT"].s

C8_Witness ==
    /\ Len(calls) = 1 /\ calls[1].fn = "requests.post"
    /\ user_input = <<"a", " ", "a">> \/ user_input = <<"a", "a">>

(***************************************************************************)
(* C9.  The reply that is returned and printed.                            *)
(***************************************************************************)
\* C9: when the provider answers successfully with a body of the shape
\* {"choices": [{"message": {"content": R}}, ...]}, R a string, the call
\* returns R, the content of the first choice, and main prints `Bot: R`; a
\* `Bot:` line is printed only after a response from which a reply was
\* extracted, and never in a run that prints an `An error occurred:` line.
C9_FirstChoiceIsPrinted ==
    /\ (/\ pc = "done" /\ ~args.use_azure
        /\ response.kind = "http" /\ ~ErrorStatus(response.status)
        /\ response.isJson /\ WellShaped(response.json)
        /\ FirstContent(response.json).t = "str")
          => /\ bot_response = Some(FirstContent(response.json).v)
             /\ LastLine = <<"Bot: ">> \o FirstContent(response.json).v
             /\ exc = NoExc
    /\ (/\ pc = "done" /\ args.use_azure
        /\ response.kind = "sdk" /\ Len(response.choices) >= 1 /\ response.choices[1].some)
          => /\ bot_response = response.choices[1]
             /\ LastLine = <<"Bot: ">> \o response.choices[1].s
             /\ exc = NoExc
    /\ BotPrinted
          => /\ ~ErrorPrinted
             /\ exc = NoExc
             /\ Len(calls) = 1
             /\ \/ /\ response.kind = "http" /\ ~ErrorStatus(response.status)
                   /\ response.isJson /\ WellShaped(response.json)
                \/ response.kind = "sdk" /\ Len(response.choices) >= 1

C9_Witness ==
    /\ pc = "done" /\ ~args.use_azure /\ response.kind = "http" /\ response.status = 200
    /\ response.isJson /\ WellShaped(response.json)
    /\ Len(response.json.v["choices"].v) = 2
    /\ LastLine = <<"Bot: ", "h", "i">>

(***************************************************************************)
(* C10.  Credentials are not printed.                                      *)
(***************************************************************************)
\* C10 as claimed: no line the program prints shows the value of --api-key or
\* of AZURE_OPENAI_API_KEY, verbatim or as its repr.
C10_Claimed ==
    \A i \in DOMAIN stdout :
        /\ args.api_key.some => ~Shows(stdout[i], args.api_key.s)
        /\ env["AZURE_OPENAI_API_KEY"].some => ~Shows(stdout[i], env["AZURE_OPENAI_API_KEY"].s)

====
